---- MODULE Spec2Model ----
(***************************************************************************)
(* TrpTv: the stream URL resolver (get_watch_url in add_watch_urls.py,     *)
(* get_stream_url in scrape_episodes.py), the two batch drivers that call  *)
(* it (add_watch_urls_to_json, scrape_episodes_for_all_shows), and the     *)
(* page fetcher get_soup.                                                  *)
(*                                                                         *)
(* Python strings are sequences of tokens.  A token is either one          *)
(* character that the code looks at ("&", "#", " ", "\n") or a run of      *)
(* characters that it only ever treats as a whole (the provider substring, *)
(* "amp;", a URL fragment).  None is a value that is not a string.         *)
(***************************************************************************)
EXTENDS Integers, Sequences, FiniteSets, TLC

VARIABLES
    \* ---- one call of a worker function on one episode ----
    caller,      \* process_episode or fetch_stream_url
    episode,     \* the episode record (a dict) the worker was given
    \* ---- the call of the resolver it makes ----
    impl,        \* which of the two implementations is running
    rpc,         \* position in the call
    page,        \* soup: the iframe/script/a elements of the video page in document
                 \* order; NoPage before the page is parsed and once it is no longer read
    watch_url,   \* local watch_url
    resp,        \* stream_response: status, headers, text
    exc,         \* the exception raised inside the try block, if any
    requests,    \* the GETs issued so far, in order, each with its outcome
    result,      \* the value returned to the caller
    propagated,  \* the exception that reached the caller, if any
    \* ---- one run of a batch script ----
    script,      \* add_watch_urls or scrape_episodes
    failed_tasks, \* the tasks whose worker logged a failure
    in_data,     \* the document the run loaded
    data,        \* the loaded document in memory (cartoons and their episodes)
    limit_shows, \* --limit, 0 when not given
    max_workers, \* size of the thread pool
    submitted,   \* the submitted tasks, in submission order
    tpc,         \* position of each submitted task
    opc,         \* position of the orchestrator
    processed_count,    \* processed_count, or len(processed_cartoons)
    processed_cartoons, \* processed_cartoons: references into data
    out_file,    \* content of the output file
    writes,      \* how many times the output file was opened for writing
    dlist,       \* the records the running json.dump goes through
    dpos,        \* the record it is at
    din,         \* whether it is inside that record's dict
    dirty,       \* whether that dict gained a key while it was inside
    \* ---- one call of get_soup ----
    gpc,         \* position in the call
    retries,     \* parameter retries
    delay,       \* local delay, doubled after each sleep
    attempt,     \* loop variable attempt
    fetches,     \* how each requests.get so far ended, in order
    sleeps,      \* the arguments of the time.sleep calls so far, in order
    soup,        \* the value get_soup returned
    first_delay  \* parameter delay as passed

resolverVars ==
    <<caller, episode, impl, rpc, page, watch_url, resp, exc, requests, result, propagated>>
batchVars ==
    <<script, failed_tasks, in_data, data, limit_shows, max_workers, submitted, tpc, opc,
      processed_count, processed_cartoons, out_file, writes, dlist, dpos, din, dirty>>
soupVars == <<gpc, retries, delay, attempt, fetches, sleeps, soup, first_delay>>
vars == <<resolverVars, batchVars, soupVars>>

-----------------------------------------------------------------------------
(* Bounds of the model *)

\* most iframe/script/a elements on a video page
MaxElems == 2
\* most characters of a watch-page body
MaxBody == 3
\* most attempts of get_soup (3 by default in the source) and longest first delay
MaxRetries == 3
MaxDelay == 2
\* shows in the loaded document; the first show has two episodes, the others one
NumShows == 2
\* the checkpoint periods, 50 episodes and 10 shows in the source, scaled to
\* the size of the document
SaveEveryEpisodes == 1
SaveEveryShows == 1

-----------------------------------------------------------------------------
(* Values *)

None == <<"None">>
NoResult == <<"NoResult">>
NoExc == "NoExc"

\* the substring both implementations search for
PROVIDER == "123moviespremium.net/watch/"

\* src / href attribute values and script texts that occur on a page
AttrValues ==
    { <<>>,
      <<"about:blank">>,
      <<"https://", PROVIDER, "a">>,
      <<"https://", PROVIDER, "b?x=1", "&", "amp;", "amp;", "y=2", "&", "amp;">> }

\* an iframe or anchor may lack its attribute (element.get returns None);
\* a script always has a text, possibly empty
Elements ==
    [name : {"iframe", "a"}, val : AttrValues \cup {None}]
        \cup [name : {"script"}, val : AttrValues]

RECURSIVE SeqsUpTo(_, _)
SeqsUpTo(S, n) ==
    IF n = 0 THEN {<<>>}
    ELSE LET shorter == SeqsUpTo(S, n - 1)
         IN  shorter \cup {Append(s, x) : s \in {t \in shorter : Len(t) = n - 1}, x \in S}

Pages == SeqsUpTo(Elements, MaxElems)

\* no parsed page at hand
NoPage == <<[name |-> "NoPage", val |-> None]>>

\* characters of a playlist body: "u" and "v" are URL characters
BodyChars == {"\n", " ", "#", "u", "v"}
Bodies == SeqsUpTo(BodyChars, MaxBody)

\* content-type header values; a response may carry no content-type header
ContentTypes ==
    { <<"application/", "vnd.apple.", "mpegurl">>,
      <<"Application/", "X-", "MPEGURL", "; charset=utf-8">>,
      <<"text/", "html">> }

\* status codes a completed request can end with (requests follows redirects
\* itself, so a 3xx here is one that is not a redirect, such as 304)
Statuses == {200, 304, 404, 503}

\* how requests.get ends: a response, or one of requests' exceptions
NetOutcomes == {"response", "Timeout", "ConnectionError"}

Impls == {"get_watch_url", "get_stream_url"}

Callers == {"process_episode", "fetch_stream_url"}

\* a key that a dict does not have
Absent == <<"Absent">>

\* the integer 0 (a season or episode number can be 0)
Zero == <<"0">>

\* the field each script keeps the resolved URL in
UrlField(c) == IF c = "process_episode" THEN "watch_url" ELSE "play_url"

\* a URL that an earlier call of the worker stored
OldUrl == <<"https://", "cdn/", "old.m3u8">>

\* episode records as the scripts meet them, new or as an earlier call of the
\* worker left them.  get_episodes_from_tmdb_api
\* builds episodes with every key and play_url None; the input of
\* add_watch_urls.py may lack IDs and may or may not have watch_url.
EpisodesOf(c) ==
    IF c = "process_episode"
    THEN [show_id : {<<"60306">>}, season_id : {<<"1">>, Zero},
          episode_id : {<<"1">>, Absent}, title : {<<"Pilot">>, None},
          watch_url : {Absent, None, OldUrl}, play_url : {None}]
    ELSE [show_id : {<<"60306">>}, season_id : {<<"1">>, Zero},
          episode_id : {<<"1">>}, title : {<<"Pilot">>, None},
          watch_url : {Absent}, play_url : {None, OldUrl}]

NoResp == [status |-> 0, ctype |-> None, text |-> <<>>]

-----------------------------------------------------------------------------
(* String functions of the Python library, as the code uses them *)

\* bool(v): None, '' and the integer 0 are false
Truthy(v) == v \notin {None, <<>>, Zero}

\* dict.get(key): None for a key the dict lacks
Get(d, key) == IF d[key] = Absent THEN None ELSE d[key]

\* sub in s, for a substring that is one token
Contains(s, tok) == \E i \in 1..Len(s) : s[i] = tok

\* str.replace('&amp;', '&'): left to right, non-overlapping
RECURSIVE ReplaceAmp(_)
ReplaceAmp(s) ==
    IF s = <<>> THEN <<>>
    ELSE IF Len(s) >= 2 /\ s[1] = "&" /\ s[2] = "amp;"
         THEN <<"&">> \o ReplaceAmp(SubSeq(s, 3, Len(s)))
         ELSE <<s[1]>> \o ReplaceAmp(Tail(s))

\* str.lower() on a content-type value
LowerTok(t) ==
    CASE t = "MPEGURL" -> "mpegurl"
      [] t = "Application/" -> "application/"
      [] t = "X-" -> "x-"
      [] OTHER -> t

Lower(s) == [i \in 1..Len(s) |-> LowerTok(s[i])]

\* str.split('\n')
RECURSIVE Split(_)
Split(s) ==
    IF \A i \in 1..Len(s) : s[i] # "\n" THEN <<s>>
    ELSE LET k == CHOOSE i \in 1..Len(s) :
                     s[i] = "\n" /\ \A j \in 1..(i - 1) : s[j] # "\n"
         IN  <<SubSeq(s, 1, k - 1)>> \o Split(SubSeq(s, k + 1, Len(s)))

IsSpace(c) == c = " "

\* str.strip()
RECURSIVE LStrip(_)
LStrip(s) == IF s # <<>> /\ IsSpace(s[1]) THEN LStrip(Tail(s)) ELSE s

RECURSIVE RStrip(_)
RStrip(s) ==
    IF s # <<>> /\ IsSpace(s[Len(s)]) THEN RStrip(SubSeq(s, 1, Len(s) - 1)) ELSE s

Strip(s) == RStrip(LStrip(s))

StartsWithHash(s) == s # <<>> /\ s[1] = "#"

\* Response.raise_for_status(): raises HTTPError for 4xx and 5xx
RaiseForStatus(status) == 400 <= status /\ status < 600

-----------------------------------------------------------------------------
(* Extraction of the watch URL *)

\* soup.find_all(names): the matching elements in document order
FindAll(pg, names) == SelectSeq(pg, LAMBDA e : e.name \in names)

\* the elements each implementation walks, in the order it walks them
ElementsToCheck(i, pg) ==
    IF i = "get_watch_url"
    THEN FindAll(pg, {"iframe"}) \o FindAll(pg, {"script"}) \o FindAll(pg, {"a"})
    ELSE FindAll(pg, {"iframe", "script", "a"})

\* element.string of a script: None when the script has no text
ScriptString(e) == IF e.val = <<>> THEN None ELSE e.val

\* attr_value of an element
AttrValue(i, e) ==
    IF e.name = "script"
    THEN IF i = "get_watch_url"
         THEN (IF Truthy(ScriptString(e)) THEN ScriptString(e) ELSE e.val)
         ELSE ScriptString(e)
    ELSE e.val

\* a scan that takes any non-empty value for the watch URL
IsMatchAnyValue(v) == Truthy(v)

IsMatch(v) == Truthy(v) /\ Contains(v, PROVIDER)

\* the for loop with its break
RECURSIVE ScanElements(_, _)
ScanElements(i, elems) ==
    IF elems = <<>> THEN None
    ELSE IF IsMatch(AttrValue(i, Head(elems)))
         THEN ReplaceAmp(AttrValue(i, Head(elems)))
         ELSE ScanElements(i, Tail(elems))

ExtractWatchUrl(i, pg) == ScanElements(i, ElementsToCheck(i, pg))

-----------------------------------------------------------------------------
(* The playlist branch *)

\* stream_response.headers.get('content-type', '')
ContentTypeOf(r) == IF r.ctype = None THEN <<>> ELSE r.ctype

IsPlaylist(r) == Contains(Lower(ContentTypeOf(r)), "mpegurl")

\* a scan that tests the trimmed line but returns the line as it stands
RECURSIVE FirstStreamLineUntrimmed(_)
FirstStreamLineUntrimmed(lines) ==
    IF lines = <<>> THEN None
    ELSE LET line == Strip(Head(lines))
         IN  IF line # <<>> /\ ~StartsWithHash(line) THEN Head(lines)
             ELSE FirstStreamLineUntrimmed(Tail(lines))

\* the for loop over the lines: the first usable line, or None
RECURSIVE FirstStreamLine(_)
FirstStreamLine(lines) ==
    IF lines = <<>> THEN None
    ELSE LET line == Strip(Head(lines))
         IN  IF line # <<>> /\ ~StartsWithHash(line) THEN line
             ELSE FirstStreamLine(Tail(lines))

\* a resolver that reads the body as a playlist whatever its content type
StreamUrlAnyType(wurl, r) ==
    LET line == FirstStreamLine(Split(r.text))
    IN  IF line # None THEN line ELSE wurl

StreamUrl(wurl, r) ==
    IF IsPlaylist(r)
    THEN LET line == FirstStreamLine(Split(r.text))
         IN  IF line # None THEN line ELSE wurl
    ELSE wurl

-----------------------------------------------------------------------------
(* Exception handling *)

\* requests.exceptions.Timeout, ConnectionError and HTTPError are
\* RequestExceptions; "Exception" is any other Exception (the HTML parser's)
IsRequestException(e) == e \in {"Timeout", "ConnectionError", "HTTPError"}

\* except clauses for the exceptions of requests only
CatchesRequestsOnly(i, e) == IsRequestException(e)

\* whether one of the implementation's except clauses catches e
Catches(i, e) ==
    IF i = "get_watch_url"
    THEN e = "Timeout" \/ IsRequestException(e) \/ e \in {"Exception"}
    ELSE e \in {"Timeout", "ConnectionError", "HTTPError", "Exception"}

\* an except clause that tries the call again
AfterExceptRetry == "start"

\* where the call goes after an except clause has run: it returns
AfterExcept == "returned"

-----------------------------------------------------------------------------
(* One call of the resolver, request by request *)

Raise(e) == /\ exc' = e
            /\ rpc' = "except"

\* a request goes out: requests.get(url, ...) is entered
Send(url) == requests' = Append(requests, [url |-> url, net |-> "pending", status |-> 0])

\* the request that is out ends
Settle(net, st) ==
    requests' = [requests EXCEPT ![Len(requests)] =
                    [url |-> @.url, net |-> net, status |-> st]]

\* requests.get(base_url, headers=HEADERS, timeout=timeout) is called
RequestVideoPage ==
    /\ UNCHANGED batchVars
    /\ UNCHANGED soupVars
    /\ rpc = "start"
    /\ Send(<<"video-player">>)
    /\ rpc' = "video_wait"
    /\ UNCHANGED <<caller, episode, impl, page, watch_url, resp, exc, result, propagated>>

\* the call ends: an exception of requests, or a response that
\* raise_for_status() rejects, or one that BeautifulSoup parses or fails on
GetVideoPage ==
    /\ UNCHANGED batchVars
    /\ UNCHANGED soupVars
    /\ rpc = "video_wait"
    /\ \/ \E net \in NetOutcomes \ {"response"} :
             /\ Settle(net, 0)
             /\ Raise(net)
             /\ UNCHANGED page
       \/ \E st \in {s \in Statuses : RaiseForStatus(s)} :
             /\ Settle("response", st)
             /\ Raise("HTTPError")
             /\ UNCHANGED page
       \/ \E st \in {s \in Statuses : ~RaiseForStatus(s)} :
             /\ Settle("response", st)
             /\ \/ Raise("Exception") /\ UNCHANGED page
                \/ \E pg \in Pages :
                      /\ page' = pg
                      /\ rpc' = "parsed"
                      /\ UNCHANGED exc
    /\ UNCHANGED <<caller, episode, impl, watch_url, resp, result, propagated>>

\* the scan of the elements, and the return when nothing matched
Extract ==
    /\ UNCHANGED batchVars
    /\ UNCHANGED soupVars
    /\ rpc = "parsed"
    /\ watch_url' = ExtractWatchUrl(impl, page)
    /\ IF ~Truthy(watch_url')
       THEN /\ result' = None
            /\ rpc' = "returned"
       ELSE /\ rpc' = "extracted"
            /\ UNCHANGED result
    /\ UNCHANGED <<caller, episode, impl, page, resp, exc, requests, propagated>>

\* requests.get(watch_url, ...) is called; the video page is not read again
RequestWatchPage ==
    /\ UNCHANGED batchVars
    /\ UNCHANGED soupVars
    /\ rpc = "extracted"
    /\ Send(watch_url)
    /\ rpc' = "watch_wait"
    /\ page' = NoPage
    /\ UNCHANGED <<caller, episode, impl, watch_url, resp, exc, result, propagated>>

\* the call ends, and raise_for_status()
GetWatchPage ==
    /\ UNCHANGED batchVars
    /\ UNCHANGED soupVars
    /\ rpc = "watch_wait"
    /\ \/ \E net \in NetOutcomes \ {"response"} :
             /\ Settle(net, 0)
             /\ Raise(net)
             /\ UNCHANGED resp
       \/ \E st \in {s \in Statuses : RaiseForStatus(s)} :
             /\ Settle("response", st)
             /\ Raise("HTTPError")
             /\ UNCHANGED resp
       \/ \E st \in {s \in Statuses : ~RaiseForStatus(s)},
             ct \in ContentTypes \cup {None}, body \in Bodies :
             /\ Settle("response", st)
             /\ resp' = [status |-> st, ctype |-> ct, text |-> body]
             /\ rpc' = "fetched"
             /\ UNCHANGED exc
    /\ UNCHANGED <<caller, episode, impl, page, watch_url, result, propagated>>

\* the content-type branch and the playlist scan
ReturnStream ==
    /\ UNCHANGED batchVars
    /\ UNCHANGED soupVars
    /\ rpc = "fetched"
    /\ result' = StreamUrl(watch_url, resp)
    /\ rpc' = "returned"
    /\ UNCHANGED <<caller, episode, impl, page, watch_url, resp, exc, requests, propagated>>

\* the except clauses
HandleException ==
    /\ UNCHANGED batchVars
    /\ UNCHANGED soupVars
    /\ rpc = "except"
    /\ IF Catches(impl, exc)
       THEN /\ result' = None
            /\ rpc' = AfterExcept
            /\ UNCHANGED propagated
       ELSE /\ propagated' = exc
            /\ rpc' = "raised"
            /\ UNCHANGED result
    /\ UNCHANGED <<caller, episode, impl, page, watch_url, resp, exc, requests>>

-----------------------------------------------------------------------------
(* The worker functions: process_episode and fetch_stream_url *)

\* not all([show_id, season_id, episode_id]), with the IDs read by .get
MissingIds(ep) ==
    ~(/\ Truthy(Get(ep, "show_id"))
      /\ Truthy(Get(ep, "season_id"))
      /\ Truthy(Get(ep, "episode_id")))

\* the success log line slices the title: None[:40] raises TypeError
LogRaises(ep, url) == Truthy(url) /\ ep.title = None

\* the worker is called: process_episode returns the episode as it is when
\* an ID is missing, fetch_stream_url reads the IDs by subscript
WorkerEnter ==
    /\ UNCHANGED batchVars
    /\ UNCHANGED soupVars
    /\ rpc = "call"
    /\ IF caller = "process_episode" /\ MissingIds(episode)
       THEN rpc' = "done"
       ELSE rpc' = "start"
    /\ UNCHANGED <<caller, episode, impl, page, watch_url, resp, exc, requests,
                   result, propagated>>

\* the field the worker leaves in the episode: the resolver's value, or None
\* when the worker's own except clause ran
StoredValue(ep, url, raised) ==
    IF raised \/ LogRaises(ep, url) THEN None ELSE url

\* episode[field] = url, the log line, return episode
WorkerStore ==
    /\ UNCHANGED batchVars
    /\ UNCHANGED soupVars
    /\ rpc \in {"returned", "raised"}
    /\ episode' = [episode EXCEPT ![UrlField(caller)] =
                      StoredValue(episode, result, rpc = "raised")]
    /\ rpc' = "done"
    /\ UNCHANGED <<caller, impl, page, watch_url, resp, exc, requests, result, propagated>>

\* no batch is running
\* get_soup is not running
SoupIdle ==
    /\ gpc = "idle"
    /\ retries = 0
    /\ delay = 0
    /\ attempt = 0
    /\ fetches = <<>>
    /\ sleeps = <<>>
    /\ soup = NoResult
    /\ first_delay = 0

BatchIdle ==
    /\ script = "none"
    /\ failed_tasks = {}
    /\ in_data = <<>>
    /\ data = <<>>
    /\ limit_shows = 0
    /\ max_workers = 0
    /\ submitted = <<>>
    /\ tpc = <<>>
    /\ opc = "idle"
    /\ processed_count = 0
    /\ processed_cartoons = <<>>
    /\ out_file = <<>>
    /\ writes = 0
    /\ dlist = <<>>
    /\ dpos = 0
    /\ din = FALSE
    /\ dirty = FALSE

InitResolver ==
    /\ caller \in Callers
    /\ impl = (IF caller = "process_episode" THEN "get_watch_url" ELSE "get_stream_url")
    /\ episode \in EpisodesOf(caller)
    /\ rpc = "call"
    /\ page = NoPage
    /\ watch_url = None
    /\ resp = NoResp
    /\ exc = NoExc
    /\ requests = <<>>
    /\ result = NoResult
    /\ propagated = NoExc
    /\ BatchIdle
    /\ SoupIdle

NextResolver ==
    \/ WorkerEnter
    \/ RequestVideoPage
    \/ GetVideoPage
    \/ Extract
    \/ RequestWatchPage
    \/ GetWatchPage
    \/ ReturnStream
    \/ HandleException
    \/ WorkerStore

SpecResolver == InitResolver /\ [][NextResolver]_vars

-----------------------------------------------------------------------------
(* The resolver as a function of what its two requests meet *)

NoException == [raised |-> FALSE, val |-> None]

\* the outcome of the call when e is raised inside the try block
Excepted(i, e) ==
    IF Catches(i, e) THEN [raised |-> FALSE, val |-> None]
    ELSE [raised |-> TRUE, val |-> None]

\* the exception a request ends with, NoExc when it ends well
RequestError(net, st) ==
    IF net # "response" THEN net
    ELSE IF RaiseForStatus(st) THEN "HTTPError" ELSE NoExc

ResolveAll(i, sc) ==
    LET e1 == IF RequestError(sc.net1, sc.st1) # NoExc
              THEN RequestError(sc.net1, sc.st1)
              ELSE IF ~sc.parses THEN "Exception" ELSE NoExc
        w  == ExtractWatchUrl(i, sc.page)
        e2 == RequestError(sc.net2, sc.resp.status)
    IN  IF e1 # NoExc THEN Excepted(i, e1)
        ELSE IF ~Truthy(w) THEN [raised |-> FALSE, val |-> None]
        ELSE IF e2 # NoExc THEN Excepted(i, e2)
        ELSE [raised |-> FALSE, val |-> StreamUrl(w, sc.resp)]

\* what the requests of one episode meet in a batch run: a timeout, a page
\* without a qualifying element, a 404 watch page, a playlist
ScPlaylist ==
    [net1 |-> "response", st1 |-> 200, parses |-> TRUE,
     page |-> <<[name |-> "a", val |-> <<"https://", PROVIDER, "a">>]>>,
     net2 |-> "response",
     resp |-> [status |-> 200, ctype |-> <<"application/", "vnd.apple.", "mpegurl">>,
               text |-> <<"#", "\n", "u">>]]

Scenarios ==
    { [ScPlaylist EXCEPT !.net1 = "Timeout"],
      [ScPlaylist EXCEPT !.page = <<[name |-> "iframe", val |-> <<"about:blank">>]>>],
      [ScPlaylist EXCEPT !.resp.status = 404],
      ScPlaylist }

-----------------------------------------------------------------------------
(* The document *)

Titles == <<"A", "B", "C", "D">>

EpisodesIn(c) == IF c = 1 THEN 2 ELSE 1

SeqsOfLen(S, n) == {q \in SeqsUpTo(S, n) : Len(q) = n}

BaseEpisode ==
    [show_id |-> <<"60306">>, season_id |-> <<"1">>, episode_id |-> <<"1">>,
     title |-> <<"Pilot">>, watch_url |-> Absent, play_url |-> None]

\* episodes in the input of add_watch_urls.py: never resolved, failed
\* before, resolved before, and one of season 0
AddEpisodes ==
    { BaseEpisode,
      [BaseEpisode EXCEPT !.watch_url = None],
      [BaseEpisode EXCEPT !.watch_url = OldUrl],
      [BaseEpisode EXCEPT !.season_id = Zero] }

\* a cartoon with its one season: has_episodes tells whether the season
\* dict has the key 'episodes'
AddCartoonsAt(c) ==
    [title : {Titles[c]}, has_episodes : {TRUE},
     episodes : SeqsOfLen(AddEpisodes, EpisodesIn(c))]

RECURSIVE AddDatasets(_)
AddDatasets(n) ==
    IF n = 0 THEN {<<>>}
    ELSE {Append(d, c) : d \in AddDatasets(n - 1), c \in AddCartoonsAt(n)}

\* a record of the document: an episode of a show, or (ep = 0) the show
EpisodeUnits(d, c) == [k \in 1..Len(d[c].episodes) |-> [show |-> c, ep |-> k]]

RECURSIVE UnitsUpTo(_, _)
UnitsUpTo(d, n) ==
    IF n = 0 THEN <<>> ELSE UnitsUpTo(d, n - 1) \o EpisodeUnits(d, n)

ShowUnits(shows) == [k \in 1..Len(shows) |-> [show |-> shows[k], ep |-> 0]]

UnitValue(d, u) == IF u.ep = 0 THEN d[u.show] ELSE d[u.show].episodes[u.ep]

\* what json.dump writes for a list of records read at one instant
Serialized(d, units) ==
    [k \in 1..Len(units) |-> [unit |-> units[k], value |-> UnitValue(d, units[k])]]

-----------------------------------------------------------------------------
(* add_watch_urls_to_json *)

\* cartoons[:limit_shows], when --limit is given
LimitedShows ==
    IF limit_shows # 0 /\ limit_shows < Len(data) THEN limit_shows ELSE Len(data)

NeedsWatchUrl(u) == Get(UnitValue(data, u), "watch_url") = None

\* the loop that collects episodes_to_process
EpisodesToProcess == SelectSeq(UnitsUpTo(data, LimitedShows), NeedsWatchUrl)

Running == {i \in 1..Len(tpc) : tpc[i] = "running"}

\* the collection loop, the early return, and the submission of every task
AddCollect ==
    /\ script = "add_watch_urls"
    /\ opc = "collect"
    /\ IF EpisodesToProcess = <<>>
       THEN /\ opc' = "done"
            /\ UNCHANGED <<submitted, tpc>>
       ELSE /\ submitted' = EpisodesToProcess
            /\ tpc' = [i \in 1..Len(EpisodesToProcess) |-> "queued"]
            /\ opc' = "wait"
    /\ UNCHANGED <<script, failed_tasks, in_data, data, limit_shows, max_workers, processed_count,
                   processed_cartoons, out_file, writes, dlist, dpos, din, dirty>>
    /\ UNCHANGED resolverVars
    /\ UNCHANGED soupVars

\* a pool thread takes the next queued task; process_episode returns at
\* once when an ID is missing
EpisodeStart(i) ==
    /\ script = "add_watch_urls"
    /\ tpc[i] = "queued"
    /\ \A j \in 1..(i - 1) : tpc[j] # "queued"
    /\ Cardinality(Running) < max_workers
    /\ tpc' = [tpc EXCEPT ![i] =
                  IF MissingIds(UnitValue(data, submitted[i])) THEN "finished"
                  ELSE "running"]
    /\ failed_tasks' = IF MissingIds(UnitValue(data, submitted[i]))
                       THEN failed_tasks \cup {i} ELSE failed_tasks
    /\ UNCHANGED <<script, in_data, data, limit_shows, max_workers, submitted, opc,
                   processed_count, processed_cartoons, out_file, writes, dlist,
                   dpos, din, dirty>>
    /\ UNCHANGED resolverVars
    /\ UNCHANGED soupVars

\* what get_watch_url does in the scenarios
WatchUrlOutcomes == {ResolveAll("get_watch_url", sc) : sc \in Scenarios}

\* whether a store into record u adds a key to the dict json.dump is inside
AddsKeyUnderDump(u, key_absent) ==
    /\ din
    /\ dlist[dpos] = u
    /\ key_absent

\* get_watch_url has returned: episode['watch_url'] = watch_url, the log
\* line, return episode
EpisodeStore(i) ==
    /\ script = "add_watch_urls"
    /\ tpc[i] = "running"
    /\ \E r \in WatchUrlOutcomes :
          LET u  == submitted[i]
              ep == UnitValue(data, u)
          IN  /\ data' = [data EXCEPT ![u.show].episodes[u.ep].watch_url =
                             StoredValue(ep, r.val, r.raised)]
              /\ dirty' = (dirty \/ AddsKeyUnderDump(u, ep.watch_url = Absent))
              /\ failed_tasks' = IF Truthy(StoredValue(ep, r.val, r.raised))
                                 THEN failed_tasks ELSE failed_tasks \cup {i}
    /\ tpc' = [tpc EXCEPT ![i] = "finished"]
    /\ UNCHANGED <<script, in_data, limit_shows, max_workers, submitted, opc,
                   processed_count, processed_cartoons, out_file, writes, dlist,
                   dpos, din>>
    /\ UNCHANGED resolverVars
    /\ UNCHANGED soupVars

\* as_completed yields a finished future: the counters, and the checkpoint
\* when the count is a multiple of the period
AddCompleted(i) ==
    /\ script = "add_watch_urls"
    /\ opc = "wait"
    /\ tpc[i] = "finished"
    /\ tpc' = [tpc EXCEPT ![i] = "collected"]
    /\ processed_count' = processed_count + 1
    /\ opc' = IF processed_count' % SaveEveryEpisodes = 0 THEN "checkpoint" ELSE "wait"
    /\ UNCHANGED <<script, failed_tasks, in_data, data, limit_shows, max_workers, submitted,
                   processed_cartoons, out_file, writes, dlist, dpos, din, dirty>>
    /\ UNCHANGED resolverVars
    /\ UNCHANGED soupVars

\* open(output_file, 'w') and json.dump(data, ...) begins
AddCheckpoint ==
    /\ script = "add_watch_urls"
    /\ opc = "checkpoint"
    /\ out_file' = <<>>
    /\ writes' = writes + 1
    /\ dlist' = UnitsUpTo(data, Len(data))
    /\ dpos' = 1
    /\ din' = FALSE
    /\ dirty' = FALSE
    /\ opc' = "dumping"
    /\ UNCHANGED <<script, failed_tasks, in_data, data, limit_shows, max_workers, submitted, tpc,
                   processed_count, processed_cartoons>>
    /\ UNCHANGED resolverVars
    /\ UNCHANGED soupVars

\* json.dump starts to iterate over the dict of the next record
DumpEnter ==
    /\ opc = "dumping"
    /\ ~din
    /\ dpos <= Len(dlist)
    /\ din' = TRUE
    /\ dirty' = FALSE
    /\ UNCHANGED <<script, failed_tasks, in_data, data, limit_shows, max_workers, submitted, tpc,
                   opc, processed_count, processed_cartoons, out_file, writes, dlist,
                   dpos>>
    /\ UNCHANGED resolverVars
    /\ UNCHANGED soupVars

\* where the orchestrator goes on after a checkpoint, written or failed
AfterCheckpoint ==
    IF script = "scrape_episodes" /\ max_workers = 1 THEN "next" ELSE "wait"

\* the iteration over that dict ends: the record is written as it is now,
\* or the iteration raises RuntimeError (dictionary changed size during
\* iteration), which the caller's except clause logs, leaving the file as
\* far as it was written
DumpLeave ==
    /\ opc = "dumping"
    /\ din
    /\ din' = FALSE
    /\ dirty' = FALSE
    /\ IF dirty
       THEN /\ opc' = AfterCheckpoint
            /\ UNCHANGED <<out_file, dpos>>
       ELSE /\ out_file' = Append(out_file,
                              [unit |-> dlist[dpos], value |-> UnitValue(data, dlist[dpos])])
            /\ dpos' = dpos + 1
            /\ UNCHANGED opc
    /\ UNCHANGED <<script, failed_tasks, in_data, data, limit_shows, max_workers, submitted, tpc,
                   processed_count, processed_cartoons, writes, dlist>>
    /\ UNCHANGED resolverVars
    /\ UNCHANGED soupVars

\* json.dump returns and the file is closed
DumpClose ==
    /\ opc = "dumping"
    /\ ~din
    /\ dpos > Len(dlist)
    /\ opc' = AfterCheckpoint
    /\ UNCHANGED <<script, failed_tasks, in_data, data, limit_shows, max_workers, submitted, tpc,
                   processed_count, processed_cartoons, out_file, writes, dlist, dpos,
                   din, dirty>>
    /\ UNCHANGED resolverVars
    /\ UNCHANGED soupVars

AllCollected == \A i \in 1..Len(tpc) : tpc[i] = "collected"

\* every future has been handled, the pool is shut down: the final save
AddFinalSave ==
    /\ script = "add_watch_urls"
    /\ opc = "wait"
    /\ AllCollected
    /\ out_file' = Serialized(data, UnitsUpTo(data, Len(data)))
    /\ writes' = writes + 1
    /\ opc' = "done"
    /\ UNCHANGED <<script, failed_tasks, in_data, data, limit_shows, max_workers, submitted, tpc,
                   processed_count, processed_cartoons, dlist, dpos, din, dirty>>
    /\ UNCHANGED resolverVars
    /\ UNCHANGED soupVars

-----------------------------------------------------------------------------
(* scrape_episodes_for_all_shows *)

\* a stored episode of an earlier run, resolved
OldEpisode == [BaseEpisode EXCEPT !.play_url = OldUrl]

\* the loaded catalog: a season may not have the key 'episodes' yet, and two
\* shows may have the same title
ScrapeCartoonsAt(c) ==
    [title : {Titles[c], Titles[1]}, has_episodes : {FALSE}, episodes : {<<>>}]
        \cup [title : {Titles[c], Titles[1]}, has_episodes : {TRUE},
              episodes : {<<OldEpisode>>}]

RECURSIVE ScrapeDatasets(_)
ScrapeDatasets(n) ==
    IF n = 0 THEN {<<>>}
    ELSE {Append(d, c) : d \in ScrapeDatasets(n - 1), c \in ScrapeCartoonsAt(n)}

\* fetch_stream_url on a fresh episode
FetchStreamUrl(ep, sc) ==
    LET r == ResolveAll("get_stream_url", sc)
    IN  [ep EXCEPT !.play_url = StoredValue(ep, r.val, r.raised)]

\* what get_all_episodes_for_show gives for the season of a show: it raises,
\* or returns {} (no page, no API key, no TMDb id), or a dict without the
\* season or with an empty list (the API call failed), or the season's
\* episodes, as built or with play_url set by fetch_stream_url
ShowOutcomes ==
    {[raises |-> TRUE, episodes |-> <<>>], [raises |-> FALSE, episodes |-> <<>>]}
        \cup {[raises |-> FALSE, episodes |-> <<ep>>] :
                 ep \in {BaseEpisode} \cup {FetchStreamUrl(BaseEpisode, sc) : sc \in Scenarios}}

Threaded == max_workers # 1

\* cartoon_tasks, and the choice between the loop and the pool
ScrapeSubmit ==
    /\ script = "scrape_episodes"
    /\ opc = "collect"
    /\ submitted' = ShowUnits([c \in 1..Len(data) |-> c])
    /\ tpc' = [i \in 1..Len(data) |-> "queued"]
    /\ opc' = IF Threaded THEN "wait" ELSE "next"
    /\ UNCHANGED <<script, failed_tasks, in_data, data, limit_shows, max_workers,
                   processed_count, processed_cartoons, out_file, writes, dlist,
                   dpos, din, dirty>>
    /\ UNCHANGED resolverVars
    /\ UNCHANGED soupVars

\* process_single_show is entered: by a pool thread for the next queued
\* task, or by the loop itself
ShowStart(i) ==
    /\ script = "scrape_episodes"
    /\ tpc[i] = "queued"
    /\ \A j \in 1..(i - 1) : tpc[j] # "queued"
    /\ IF Threaded
       THEN Cardinality(Running) < max_workers /\ UNCHANGED opc
       ELSE opc = "next" /\ opc' = "in_task"
    /\ tpc' = [tpc EXCEPT ![i] = "running"]
    /\ UNCHANGED <<script, failed_tasks, in_data, data, limit_shows, max_workers,
                   submitted, processed_count, processed_cartoons, out_file, writes,
                   dlist, dpos, din, dirty>>
    /\ UNCHANGED resolverVars
    /\ UNCHANGED soupVars

\* get_all_episodes_for_show has ended: season['episodes'] = episodes for
\* the season of the show, or the except clause when it raised
ShowStore(i) ==
    /\ script = "scrape_episodes"
    /\ tpc[i] = "running"
    /\ \E o \in ShowOutcomes :
          LET c == submitted[i].show
          IN  /\ IF o.raises
                 THEN UNCHANGED <<data, dirty>>
                 ELSE /\ data' = [data EXCEPT ![c].episodes = o.episodes,
                                              ![c].has_episodes = TRUE]
                      /\ dirty' = (dirty \/
                                   AddsKeyUnderDump(submitted[i], ~data[c].has_episodes))
              /\ failed_tasks' = IF o.raises \/ o.episodes = <<>>
                                 THEN failed_tasks \cup {i} ELSE failed_tasks
    /\ tpc' = [tpc EXCEPT ![i] = "finished"]
    /\ UNCHANGED <<script, in_data, limit_shows, max_workers, submitted, opc,
                   processed_count, processed_cartoons, out_file, writes, dlist,
                   dpos, din>>
    /\ UNCHANGED resolverVars
    /\ UNCHANGED soupVars

\* the result of a task reaches the orchestrator: processed_cartoons.append,
\* and the checkpoint when the length is a multiple of the period
ScrapeCompleted(i) ==
    /\ script = "scrape_episodes"
    /\ opc = (IF Threaded THEN "wait" ELSE "in_task")
    /\ tpc[i] = "finished"
    /\ tpc' = [tpc EXCEPT ![i] = "collected"]
    /\ processed_cartoons' = Append(processed_cartoons, submitted[i].show)
    /\ processed_count' = Len(processed_cartoons')
    /\ opc' = IF Len(processed_cartoons') % SaveEveryShows = 0 THEN "checkpoint"
              ELSE AfterCheckpoint
    /\ UNCHANGED <<script, failed_tasks, in_data, data, limit_shows, max_workers,
                   submitted, out_file, writes, dlist, dpos, din, dirty>>
    /\ UNCHANGED resolverVars
    /\ UNCHANGED soupVars

\* next(i for i, orig in enumerate(cartoons) if orig['title'] == c['title'])
OriginalIndex(c) ==
    CHOOSE i \in 1..Len(data) :
        /\ data[i].title = data[c].title
        /\ \A j \in 1..(i - 1) : data[j].title # data[c].title

\* list.sort(key=...): stable
InsertByIndex(sorted, c) ==
    LET before == SelectSeq(sorted, LAMBDA x : OriginalIndex(x) <= OriginalIndex(c))
        after  == SelectSeq(sorted, LAMBDA x : OriginalIndex(x) > OriginalIndex(c))
    IN  before \o <<c>> \o after

RECURSIVE SortShows(_)
SortShows(shows) ==
    IF shows = <<>> THEN <<>>
    ELSE InsertByIndex(SortShows(SubSeq(shows, 1, Len(shows) - 1)), shows[Len(shows)])

\* cartoons[len(processed_cartoons):]
RestOfCartoons(n) == [k \in 1..(Len(data) - n) |-> n + k]

\* the list a checkpoint hands to save_data
CheckpointList ==
    IF Threaded
    THEN SortShows(processed_cartoons) \o RestOfCartoons(Len(processed_cartoons))
    ELSE processed_cartoons

\* save_data is called for a checkpoint: the pool's branch sorts
\* processed_cartoons first; open(OUTPUT_FILE, 'w') and json.dump begins
ScrapeCheckpoint ==
    /\ script = "scrape_episodes"
    /\ opc = "checkpoint"
    /\ processed_cartoons' = IF Threaded THEN SortShows(processed_cartoons)
                             ELSE processed_cartoons
    /\ out_file' = <<>>
    /\ writes' = writes + 1
    /\ dlist' = ShowUnits(CheckpointList)
    /\ dpos' = 1
    /\ din' = FALSE
    /\ dirty' = FALSE
    /\ opc' = "dumping"
    /\ UNCHANGED <<script, failed_tasks, in_data, data, limit_shows, max_workers,
                   submitted, tpc, processed_count>>
    /\ UNCHANGED resolverVars
    /\ UNCHANGED soupVars

\* the loop or the pool has ended: the final sort and save_data
ScrapeFinalSave ==
    /\ script = "scrape_episodes"
    /\ opc = (IF Threaded THEN "wait" ELSE "next")
    /\ AllCollected
    /\ processed_cartoons' = SortShows(processed_cartoons)
    /\ out_file' = Serialized(data, ShowUnits(processed_cartoons'))
    /\ writes' = writes + 1
    /\ opc' = "done"
    /\ UNCHANGED <<script, failed_tasks, in_data, data, limit_shows, max_workers,
                   submitted, tpc, processed_count, dlist, dpos, din, dirty>>
    /\ UNCHANGED resolverVars
    /\ UNCHANGED soupVars

-----------------------------------------------------------------------------
(* The two specifications *)

ResolverIdle ==
    /\ caller = "none"
    /\ impl = "none"
    /\ episode = BaseEpisode
    /\ rpc = "idle"
    /\ page = NoPage
    /\ watch_url = None
    /\ resp = NoResp
    /\ exc = NoExc
    /\ requests = <<>>
    /\ result = NoResult
    /\ propagated = NoExc

\* the state after json.load in add_watch_urls_to_json
InitAdd ==
    /\ script = "add_watch_urls"
    /\ in_data \in AddDatasets(NumShows)
    /\ limit_shows \in {0, 1}
    /\ max_workers \in {1, 2}

\* the state after load_existing_data in scrape_episodes_for_all_shows
InitScrape ==
    /\ script = "scrape_episodes"
    /\ in_data \in ScrapeDatasets(NumShows)
    /\ limit_shows = 0
    /\ max_workers \in {1, 2}

InitBatch ==
    /\ InitAdd \/ InitScrape
    /\ data = in_data
    /\ opc = "collect"
    /\ failed_tasks = {}
    /\ submitted = <<>>
    /\ tpc = <<>>
    /\ processed_count = 0
    /\ processed_cartoons = <<>>
    /\ out_file = <<>>
    /\ writes = 0
    /\ dlist = <<>>
    /\ dpos = 0
    /\ din = FALSE
    /\ dirty = FALSE
    /\ ResolverIdle
    /\ SoupIdle

NextBatch ==
    \/ AddCollect
    \/ \E i \in 1..Len(tpc) : EpisodeStart(i)
    \/ \E i \in 1..Len(tpc) : EpisodeStore(i)
    \/ \E i \in 1..Len(tpc) : AddCompleted(i)
    \/ AddCheckpoint
    \/ AddFinalSave
    \/ ScrapeSubmit
    \/ \E i \in 1..Len(tpc) : ShowStart(i)
    \/ \E i \in 1..Len(tpc) : ShowStore(i)
    \/ \E i \in 1..Len(tpc) : ScrapeCompleted(i)
    \/ ScrapeCheckpoint
    \/ ScrapeFinalSave
    \/ DumpEnter
    \/ DumpLeave
    \/ DumpClose

SpecBatch == InitBatch /\ [][NextBatch]_vars

-----------------------------------------------------------------------------
(* get_soup *)

\* what the text of a show page is to the callers of get_soup: with or
\* without the apiKey and id constants
SoupTexts == {<<>>, <<"apiKey", "id">>}

\* BeautifulSoup(r.text, "html.parser")
BeautifulSoup(text) == <<"soup">> \o text

\* how requests.get(url, headers=HEADERS) ends: no timeout is passed
SoupNetOutcomes == {"response", "ConnectionError"}

\* range(retries)
InRange(a, n) == 0 <= a /\ a < n

\* the test of the except clause: attempt < retries - 1
SleepsAgain(a, n) == a < n - 1

\* a delay that stays as it is
NextDelaySame(d) == d

\* delay *= 2
NextDelay(d) == d * 2

\* one iteration of the loop in which r.raise_for_status() passes: the parsed
\* document is returned
SoupSucceeds(st, text) ==
    /\ gpc = "loop"
    /\ InRange(attempt, retries)
    /\ RequestError("response", st) = NoExc
    /\ fetches' = Append(fetches, [net |-> "response", status |-> st])
    /\ soup' = BeautifulSoup(text)
    /\ gpc' = "returned"
    /\ UNCHANGED <<retries, delay, attempt, sleeps, first_delay>>
    /\ UNCHANGED <<resolverVars, batchVars>>

\* one iteration in which requests.get or raise_for_status raises a
\* RequestException: the except clause sleeps and doubles the delay, or,
\* in the last iteration, returns None
SoupFails(net, st) ==
    /\ gpc = "loop"
    /\ InRange(attempt, retries)
    /\ IsRequestException(RequestError(net, st))
    /\ fetches' = Append(fetches, [net |-> net, status |-> st])
    /\ IF SleepsAgain(attempt, retries)
       THEN /\ sleeps' = Append(sleeps, delay)
            /\ delay' = NextDelay(delay)
            /\ attempt' = attempt + 1
            /\ UNCHANGED <<gpc, soup>>
       ELSE /\ soup' = None
            /\ gpc' = "returned"
            /\ UNCHANGED <<sleeps, delay, attempt>>
    /\ UNCHANGED <<retries, first_delay>>
    /\ UNCHANGED <<resolverVars, batchVars>>

\* range(retries) is exhausted without a return statement: retries <= 0,
\* and the function returns None
SoupLoopEnds ==
    /\ gpc = "loop"
    /\ ~InRange(attempt, retries)
    /\ soup' = None
    /\ gpc' = "returned"
    /\ UNCHANGED <<retries, delay, attempt, fetches, sleeps, first_delay>>
    /\ UNCHANGED <<resolverVars, batchVars>>

\* get_soup(url, retries, delay) is called
InitSoup ==
    /\ gpc = "loop"
    /\ retries \in 0..MaxRetries
    /\ first_delay \in 1..MaxDelay
    /\ delay = first_delay
    /\ attempt = 0
    /\ fetches = <<>>
    /\ sleeps = <<>>
    /\ soup = NoResult
    /\ ResolverIdle
    /\ BatchIdle

NextSoup ==
    \/ \E st \in Statuses, text \in SoupTexts : SoupSucceeds(st, text)
    \/ \E st \in Statuses : SoupFails("response", st)
    \/ SoupFails("ConnectionError", 0)
    \/ SoupLoopEnds

SpecSoup == InitSoup /\ [][NextSoup]_vars

-----------------------------------------------------------------------------
(* Properties of the resolver *)

IsString(v) == v \notin {None, NoResult, Absent}

CallOver == rpc \in {"returned", "done"} /\ requests # <<>>

TransportFailed(r) == r.net \in {"Timeout", "ConnectionError"}

\* a failure as the specification lists them, any status outside 2xx included
C1_FailureAsClaimed ==
    \/ \E k \in 1..Len(requests) :
          \/ TransportFailed(requests[k])
          \/ requests[k].net = "response" /\ requests[k].status \notin 200..299
    \/ exc # NoExc

\* C1 as stated: no exception reaches the caller of get_watch_url /
\* get_stream_url, the call returns a string or None, and every failure at
\* either hop (timeout, transport error, non-2xx status, unparsable body)
\* returns None.
C1_EveryFailureReturnsNone ==
    /\ rpc # "raised"
    /\ propagated = NoExc
    /\ CallOver => /\ result = None \/ IsString(result)
                   /\ C1_FailureAsClaimed => result = None

\* a failure as the code sees it: a 4xx or 5xx status
C1_Failure ==
    \/ \E k \in 1..Len(requests) :
          \/ TransportFailed(requests[k])
          \/ requests[k].net = "response" /\ requests[k].status \in 400..599
    \/ exc # NoExc

\* C1 amended: no exception reaches the caller, the call returns a string or
\* None, and every timeout, transport error, 4xx/5xx status and parser error
\* at either hop returns None.
C1_NoExceptionEscapes ==
    /\ rpc # "raised"
    /\ propagated = NoExc
    /\ CallOver => /\ result = None \/ IsString(result)
                   /\ C1_Failure => result = None

\* the parser failed on the video page and the call returned None
C1_Witness ==
    /\ rpc = "returned"
    /\ exc = "Exception"
    /\ result = None
    /\ Len(requests) = 1

\* the value the specification reads off an element: iframe src, script
\* text, anchor href
C2_Qualifies(e) == e.val # None /\ \E k \in 1..Len(e.val) : e.val[k] = PROVIDER

C2_FirstQualifying(pg) ==
    CHOOSE k \in 1..Len(pg) :
        C2_Qualifies(pg[k]) /\ \A j \in 1..(k - 1) : ~C2_Qualifies(pg[j])

\* C2: once a page with a qualifying iframe, script or anchor has been
\* scanned, watch_url is the value of the first qualifying element in
\* document order, with '&amp;' replaced by '&', in both implementations.
C2_FirstInDocumentOrderWins ==
    (/\ page # NoPage
     /\ rpc # "parsed"
     /\ \E k \in 1..Len(page) : C2_Qualifies(page[k]))
        => watch_url = ReplaceAmp(page[C2_FirstQualifying(page)].val)

\* the same for get_stream_url alone, which walks the elements in document order
C2_StreamUrlFirstInDocumentOrder ==
    impl = "get_stream_url" => C2_FirstInDocumentOrderWins

C3_IsMpegurl(ct) == ct # None /\ \E k \in 1..Len(ct) : ct[k] \in {"mpegurl", "MPEGURL"}

C3_Usable(line) == Strip(line) # <<>> /\ Strip(line)[1] # "#"

C3_HasUsableLine(text) ==
    \E k \in 1..Len(Split(text)) : C3_Usable(Split(text)[k])

C3_FirstUsableLine(text) ==
    LET lines == Split(text)
        k == CHOOSE i \in 1..Len(lines) :
                 C3_Usable(lines[i]) /\ \A j \in 1..(i - 1) : ~C3_Usable(lines[j])
    IN  Strip(lines[k])

\* C3: when the watch response's content type contains 'mpegurl' in any case
\* and its body has a line that is, once trimmed, non-empty and not a
\* comment, the resolver returns the first such line, trimmed.
C3_FirstStreamLineReturned ==
    (/\ CallOver
     /\ resp # NoResp
     /\ C3_IsMpegurl(resp.ctype)
     /\ C3_HasUsableLine(resp.text))
        => result = C3_FirstUsableLine(resp.text)

\* an upper-case content type, a blank line, then an indented media line
\* followed by another
C3_Witness ==
    /\ rpc = "returned"
    /\ resp # NoResp
    /\ resp.ctype = <<"Application/", "X-", "MPEGURL", "; charset=utf-8">>
    /\ resp.text = <<" ", "u", "\n">>
    /\ result = <<"u">>

\* C4: the resolver returns the extracted watch URL when the content type
\* does not contain 'mpegurl', whatever the body, and when it does but the
\* body has no usable line.
C4_WatchUrlFallback ==
    (/\ CallOver
     /\ resp # NoResp
     /\ ~C3_IsMpegurl(resp.ctype) \/ ~C3_HasUsableLine(resp.text))
        => /\ result = watch_url
           /\ IsString(result)

\* a text/html response whose body looks like a playlist
C4_Witness ==
    /\ rpc = "returned"
    /\ resp # NoResp
    /\ resp.ctype = <<"text/", "html">>
    /\ resp.text = <<"#", "\n", "u">>
    /\ result = watch_url

\* a playlist with comments and blank lines only
C4_WitnessEmptyPlaylist ==
    /\ rpc = "returned"
    /\ resp # NoResp
    /\ C3_IsMpegurl(resp.ctype)
    /\ resp.text = <<"#", "u", "\n">>
    /\ result = watch_url

C5_NoQualifyingElement ==
    /\ page # NoPage
    /\ rpc # "parsed"
    /\ \A k \in 1..Len(page) : ~C2_Qualifies(page[k])

\* C5: when the video page has no qualifying element the resolver returns
\* None after its single request, and the worker leaves None in the
\* episode's URL field.
C5_NoElementNoUrl ==
    C5_NoQualifyingElement =>
        /\ result = None
        /\ Len(requests) = 1
        /\ rpc \in {"returned", "done"}
        /\ rpc = "done" => episode[UrlField(caller)] = None

\* process_episode has handled an episode that had no watch_url key and whose
\* video page holds two elements, neither qualifying
C5_Witness ==
    /\ C5_NoQualifyingElement
    /\ Len(page) = 2
    /\ rpc = "done"
    /\ caller = "process_episode"
    /\ episode.watch_url = None

C10_Failed(r) ==
    \/ TransportFailed(r)
    \/ r.net = "response" /\ r.status >= 400

\* C10: one call issues at most one GET to the video page and then at most
\* one GET to the watch URL, and a failed request is the last one: the call
\* then returns None.
C10_NoRetry ==
    /\ Len(requests) <= 2
    /\ Len(requests) >= 1 => requests[1].url = <<"video-player">>
    /\ Len(requests) = 2 => /\ requests[2].url # <<"video-player">>
                            /\ requests[2].url = watch_url
                            /\ ~C10_Failed(requests[1])
    /\ \A k \in 1..Len(requests) :
          C10_Failed(requests[k]) =>
              /\ k = Len(requests)
              /\ CallOver => result = None

\* the watch page answered 503 and the call returned None with no third request
C10_Witness ==
    /\ rpc = "returned"
    /\ Len(requests) = 2
    /\ requests[2].status = 503
    /\ result = None

-----------------------------------------------------------------------------
(* Properties of the batch runs *)

IsAdd == script = "add_watch_urls"
IsScrape == script = "scrape_episodes"

AllUnits(d) == {UnitsUpTo(d, Len(d))[k] : k \in 1..Len(UnitsUpTo(d, Len(d)))}

\* a write of the output file has ended, completed or not
FileWritten == writes > 0 /\ opc # "dumping"

Occurrences(u) == Cardinality({k \in 1..Len(out_file) : out_file[k].unit = u})

C6_Resolved(u) == Get(UnitValue(in_data, u), "watch_url") # None

\* without --limit the submitted episodes are those without a watch URL
C6_SubmitsTheUnresolved ==
    (IsAdd /\ limit_shows = 0 /\ opc # "collect") =>
        /\ {submitted[i] : i \in 1..Len(submitted)} =
               {u \in AllUnits(in_data) : ~C6_Resolved(u)}
        /\ \A i, j \in 1..Len(submitted) : submitted[i] = submitted[j] => i = j

\* every file written holds each resolved episode as it was loaded
C6_ResolvedKeptInEveryFile ==
    (IsAdd /\ FileWritten) =>
        \A u \in {v \in AllUnits(in_data) : C6_Resolved(v)} :
            \E k \in 1..Len(out_file) :
                out_file[k] = [unit |-> u, value |-> UnitValue(in_data, u)]

\* a run with nothing to resolve writes nothing
C6_NothingToResolveNothingWritten ==
    (IsAdd /\ \A u \in AllUnits(in_data) : C6_Resolved(u)) => writes = 0

\* C6: a rerun of add_watch_urls_to_json without --limit submits exactly the
\* episodes whose watch_url is None or absent, every episode that has a
\* watch_url keeps it and its other fields in every file the run writes, and
\* a run on a document without such an episode writes nothing.
C6_RerunsIdempotent ==
    /\ C6_SubmitsTheUnresolved
    /\ C6_ResolvedKeptInEveryFile
    /\ C6_NothingToResolveNothingWritten

\* the URL field of every episode in memory is a URL or None
C7_FailedEpisodesAreNull ==
    /\ IsAdd => \A i \in failed_tasks :
                   Get(UnitValue(data, submitted[i]), "watch_url") = None
    /\ IsScrape => \A c \in 1..Len(data) : \A k \in 1..Len(data[c].episodes) :
                      LET url == data[c].episodes[k].play_url
                      IN  ~Truthy(url) => url = None

\* the final document: every record of the dataset as it is in memory
C7_FinalSaveDone ==
    /\ writes >= 1
    /\ IsAdd => out_file = Serialized(data, UnitsUpTo(data, Len(data)))
    /\ IsScrape => \A c \in 1..Len(data) :
                      \E k \in 1..Len(out_file) :
                          out_file[k] = [unit |-> [show |-> c, ep |-> 0], value |-> data[c]]

\* the batch goes on: until the final save the run can always take a step,
\* it ends with every submitted item handled and the document saved, and the
\* URL field of a failed episode reads as None through dict.get
C7_BatchGoesOn ==
    /\ (opc # "done") => ENABLED NextBatch
    /\ (opc = "done" /\ submitted # <<>>) =>
           /\ AllCollected
           /\ processed_count = Len(submitted)
           /\ C7_FinalSaveDone
    /\ C7_FailedEpisodesAreNull

\* the failed episode has the key watch_url, with the value None
C7_FailedEpisodeHasNullField ==
    (IsAdd /\ opc = "done") =>
        \A i \in failed_tasks : UnitValue(data, submitted[i]).watch_url = None

\* C7: a failure on one item never aborts a batch: every other submitted item
\* is still processed, the run reaches its final save, and the failing
\* episode ends with a null URL field.
C7_ItemFailureDoesNotAbort ==
    /\ C7_BatchGoesOn
    /\ C7_FailedEpisodeHasNullField

\* add_watch_urls_to_json has ended after one episode failed (its field is
\* None) and another was resolved
C7_Witness ==
    /\ IsAdd
    /\ opc = "done"
    /\ \E i, j \in 1..Len(submitted) :
          /\ i \in failed_tasks
          /\ UnitValue(data, submitted[i]).watch_url = None
          /\ j \notin failed_tasks
          /\ Truthy(UnitValue(data, submitted[j]).watch_url)

\* scrape_episodes_for_all_shows has ended after one show failed and another
\* got an episode with a stream URL
C7_WitnessScrape ==
    /\ IsScrape
    /\ opc = "done"
    /\ \E i, j \in 1..Len(submitted) :
          /\ i \in failed_tasks
          /\ j \notin failed_tasks
          /\ Truthy(data[submitted[j].show].episodes[1].play_url)

\* C8: the document a checkpoint leaves in the output file holds every show
\* of the loaded catalog exactly once (for add_watch_urls_to_json: every
\* episode of every show).
C8_CheckpointHoldsEveryShowOnce ==
    (FileWritten /\ opc # "done") =>
        /\ IsScrape => \A c \in 1..Len(data) : Occurrences([show |-> c, ep |-> 0]) = 1
        /\ IsAdd => \A u \in AllUnits(data) : Occurrences(u) = 1

\* the same for the sequential loop of scrape_episodes_for_all_shows alone
C8_SequentialCheckpointHoldsEveryShowOnce ==
    (IsScrape /\ ~Threaded) => C8_CheckpointHoldsEveryShowOnce

\* no checkpoint of the pool branch of scrape_episodes_for_all_shows holds a
\* show twice
C8_ThreadedCheckpointHasNoDuplicate ==
    (IsScrape /\ Threaded /\ FileWritten /\ opc # "done") =>
        \A c \in 1..Len(data) : Occurrences([show |-> c, ep |-> 0]) <= 1

\* C9: no worker writes a record while the orchestrator reads it for a
\* checkpoint: the record json.dump is inside does not change.
C9_NoWriteUnderCheckpointRead ==
    [][din => UnitValue(data', dlist[dpos]) = UnitValue(data, dlist[dpos])]_vars

-----------------------------------------------------------------------------
(* Properties of get_soup *)

RECURSIVE Pow2(_)
Pow2(n) == IF n = 0 THEN 1 ELSE 2 * Pow2(n - 1)

\* the k-th GET of the call failed
C11_Failed(k) == RequestError(fetches[k].net, fetches[k].status) # NoExc

C11_IsSoup(v) == v # <<>> /\ Head(v) = "soup"

\* C11: get_soup makes at most `retries` GET attempts, returns the parsed
\* document at the first successful attempt without further requests, sleeps
\* delay, 2*delay, 4*delay, ... between consecutive failed attempts, and
\* after the last failed attempt returns None without sleeping.
C11_RetriesWithBackoff ==
    /\ Len(fetches) <= retries
    /\ \A k \in 1..Len(fetches) :
          ~C11_Failed(k) => /\ k = Len(fetches)
                            /\ gpc = "returned"
                            /\ C11_IsSoup(soup)
    /\ \A k \in 1..Len(sleeps) : sleeps[k] = first_delay * Pow2(k - 1)
    /\ gpc = "loop" => /\ Len(sleeps) = Len(fetches)
                       /\ soup = NoResult
    /\ (gpc = "returned" /\ fetches # <<>>) => Len(sleeps) = Len(fetches) - 1
    /\ (gpc = "returned" /\ ~C11_IsSoup(soup)) =>
           /\ soup = None
           /\ Len(fetches) = retries
           /\ \A k \in 1..Len(fetches) : C11_Failed(k)

\* every attempt of a call with three or more has failed: two sleeps or
\* more, the second twice the first, and None
C11_Witness ==
    /\ gpc = "returned"
    /\ retries >= 3
    /\ Len(fetches) = retries
    /\ soup = None
    /\ Len(sleeps) = retries - 1
    /\ sleeps[2] = 2 * sleeps[1]

\* a call that got the document at its second attempt, after one sleep
C11_WitnessSecondAttempt ==
    /\ gpc = "returned"
    /\ C11_IsSoup(soup)
    /\ Len(fetches) = 2
    /\ sleeps = <<first_delay>>

-----------------------------------------------------------------------------
(* Properties of the worker functions *)

\* no step of a worker call changes a field other than the URL field
C12_OtherFieldsKept ==
    [][\A f \in (DOMAIN episode) \ {UrlField(caller)} : episode'[f] = episode[f]]_vars

\* the URL field changes only to None or to the string the resolver returned
C12_UrlOnlyFromSuccess ==
    [][episode'[UrlField(caller)] # episode[UrlField(caller)] =>
           \/ episode'[UrlField(caller)] = None
           \/ IsString(result) /\ episode'[UrlField(caller)] = result]_vars

\* after a call the URL field is a URL or None
C12_NoneUnlessResolved ==
    [](rpc = "done" =>
           (~IsString(episode[UrlField(caller)]) => episode[UrlField(caller)] = None))

\* C12: a call of process_episode / fetch_stream_url on an episode, new or
\* left by earlier calls, changes only its URL field: every other field keeps
\* its value, and the URL field is None until a resolution succeeds.
C12_OnlyUrlFieldChanges ==
    /\ C12_OtherFieldsKept
    /\ C12_UrlOnlyFromSuccess
    /\ C12_NoneUnlessResolved

-----------------------------------------------------------------------------
(* The two implementations against each other *)

C13_Other(i) == IF i = "get_watch_url" THEN "get_stream_url" ELSE "get_watch_url"

\* both implementations have an except clause for the exception raised
C13_SameExceptClauses ==
    exc # NoExc => Catches(impl, exc) = Catches(C13_Other(impl), exc)

\* the other implementation takes the same watch URL from the page
C13_SameWatchUrl ==
    (page # NoPage /\ rpc # "parsed") =>
        watch_url = ExtractWatchUrl(C13_Other(impl), page)

\* C13: get_watch_url and get_stream_url return the same value for every
\* video page, every watch-page response and every failure: the running
\* implementation takes the watch URL the other one would take (what follows
\* is the same code in both), and handles the same exceptions.
C13_ImplementationsAgree ==
    /\ C13_SameWatchUrl
    /\ C13_SameExceptClauses

-----------------------------------------------------------------------------
(* Properties of the saved catalog *)

\* the shows of the output file, in the order they are written
C14_SavedShows == [k \in 1..Len(out_file) |-> out_file[k].unit.show]

\* C14: when scrape_episodes_for_all_shows has ended, the saved document
\* holds every show of the loaded catalog exactly once, in the order of the
\* catalog, for every worker count and every order of completion.
C14_FinalDocumentInCatalogOrder ==
    (IsScrape /\ opc = "done") => C14_SavedShows = [c \in 1..Len(data) |-> c]

\* the same without the order
C14_FinalDocumentHoldsEveryShowOnce ==
    (IsScrape /\ opc = "done") =>
        \A c \in 1..Len(data) : Occurrences([show |-> c, ep |-> 0]) = 1

\* the same for catalogs without two shows of one title
C14_DistinctTitlesInCatalogOrder ==
    (\A c, e \in 1..Len(data) : data[c].title = data[e].title => c = e)
        => C14_FinalDocumentInCatalogOrder

\* the task of show c ended without episodes: get_all_episodes_for_show
\* raised, or gave no episodes for the season
C15_ExtractionFailed(c) ==
    \E i \in failed_tasks : submitted[i].show = c /\ tpc[i] # "running"

\* C15: when the extraction of the catalog of a show fails, process_single_show
\* leaves the episodes stored for that show, resolved URLs included, as they
\* were loaded, in memory and so in every document saved afterwards.
C15_FailedShowKeepsStoredEpisodes ==
    IsScrape => \A c \in 1..Len(data) :
                   C15_ExtractionFailed(c) => data[c].episodes = in_data[c].episodes

====
